---- MODULE Spec2Model ----
(***************************************************************************)
(* A model of the polygreen reverse-vending backend: the public REST API   *)
(* of src/app.py (register, login, bearer endpoints, redeem, machine       *)
(* insert) and the admin maintenance actions of src/admin.py (empty        *)
(* machine, add machine), over the relational tables users, machines,      *)
(* transactions and reward_brand.                                          *)
(*                                                                         *)
(* Text values (names, mobiles, passwords, user ids, coupons) are          *)
(* sequences of one-character strings, so that slicing, case folding,      *)
(* concatenation and int() are computed as Python computes them.           *)
(* Machine ids, operation names and messages are opaque strings.           *)
(*                                                                         *)
(* Every request is run by a process: it goes from "idle" through the      *)
(* handler's database steps to "done", where rsp[p] is the HTTP response,  *)
(* and Return(p) hands the response to the client.  A handler whose        *)
(* statements all sit in one transaction and read before they write is     *)
(* split where another request's commit can fall between its SELECT and    *)
(* its UPDATE (PostgreSQL's default READ COMMITTED isolation: an UPDATE    *)
(* with "col = col + n" applies to the latest committed row).              *)
(***************************************************************************)
EXTENDS Integers, Sequences, FiniteSets, TLC

\* ------------------------------------------------------------------ bounds
\* The ledger is cut at MaxTrx rows and the users table at MaxUsers rows.
MaxTrx == 2
MaxUsers == 3
\* The clock stops at MaxTime seconds.
MaxTime == 402

Procs == {"p1", "p2"}

\* ------------------------------------------------------------- text values
Digits == {"0", "1", "2", "3", "4", "5", "6", "7", "8", "9"}

DigitVal(c) ==
    CASE c = "0" -> 0 [] c = "1" -> 1 [] c = "2" -> 2 [] c = "3" -> 3
      [] c = "4" -> 4 [] c = "5" -> 5 [] c = "6" -> 6 [] c = "7" -> 7
      [] c = "8" -> 8 [] c = "9" -> 9

DigitChar(d) ==
    CASE d = 0 -> "0" [] d = 1 -> "1" [] d = 2 -> "2" [] d = 3 -> "3"
      [] d = 4 -> "4" [] d = 5 -> "5" [] d = 6 -> "6" [] d = 7 -> "7"
      [] d = 8 -> "8" [] d = 9 -> "9"

\* str.lower() and str.upper() on one character (the letters the model uses).
LowerChar(c) ==
    CASE c = "A" -> "a" [] c = "B" -> "b" [] c = "F" -> "f" [] c = "L" -> "l"
      [] c = "M" -> "m" [] c = "N" -> "n" [] c = "S" -> "s" [] c = "W" -> "w"
      [] OTHER -> c

UpperChar(c) ==
    CASE c = "a" -> "A" [] c = "b" -> "B" [] c = "f" -> "F" [] c = "l" -> "L"
      [] c = "m" -> "M" [] c = "n" -> "N" [] c = "s" -> "S" [] c = "w" -> "W"
      [] c = "i" -> "I" [] c = "z" -> "Z" [] c = "o" -> "O"
      [] OTHER -> c

Lower(s) == [i \in 1..Len(s) |-> LowerChar(s[i])]
Upper(s) == [i \in 1..Len(s) |-> UpperChar(s[i])]

Min(a, b) == IF a <= b THEN a ELSE b
Max(a, b) == IF a >= b THEN a ELSE b

\* s[:n]
Prefix(s, n) == SubSeq(s, 1, Min(n, Len(s)))
\* s[-n:]
Suffix(s, n) == SubSeq(s, Max(1, Len(s) - n + 1), Len(s))

\* str(None)
NoneStr == <<"N", "o", "n", "e">>

\* str(n) for an integer n
RECURSIVE NatStr(_)
NatStr(n) == IF n < 10 THEN <<DigitChar(n)>>
             ELSE NatStr(n \div 10) \o <<DigitChar(n % 10)>>

IntStr(n) == IF n < 0 THEN <<"-">> \o NatStr(-n) ELSE NatStr(n)

\* s.zfill(w): zeros go after a leading sign
RECURSIVE Zeros(_)
Zeros(k) == IF k <= 0 THEN <<>> ELSE <<"0">> \o Zeros(k - 1)

\* A fixed-width pad: the last w characters of the padded text.
ZFillCut(s, w) == Suffix(Zeros(w) \o s, w)
ZFill(s, w) ==
    IF Len(s) > 0 /\ s[1] \in {"-", "+"}
    THEN <<s[1]>> \o Zeros(w - Len(s)) \o Tail(s)
    ELSE Zeros(w - Len(s)) \o s

\* int(s) for a str s: digits, with single underscores between digits
\* (PEP 515); anything else raises ValueError.
IntLiteral(s) ==
    /\ Len(s) > 0
    /\ s[1] \in Digits
    /\ s[Len(s)] \in Digits
    /\ \A i \in 1..Len(s) : s[i] \in Digits \cup {"_"}
    /\ \A i \in 1..(Len(s) - 1) : ~(s[i] = "_" /\ s[i + 1] = "_")

RECURSIVE DigitsValue(_)
DigitsValue(s) ==
    IF Len(s) = 0 THEN 0
    ELSE IF s[Len(s)] = "_" THEN DigitsValue(SubSeq(s, 1, Len(s) - 1))
    ELSE DigitsValue(SubSeq(s, 1, Len(s) - 1)) * 10 + DigitVal(s[Len(s)])

PyInt(s) == IF IntLiteral(s) THEN [ok |-> TRUE, v |-> DigitsValue(s)]
            ELSE [ok |-> FALSE, v |-> 0]

\* str.isdigit()
IsDigit(s) == Len(s) > 0 /\ \A i \in 1..Len(s) : s[i] \in Digits


\* ------------------------------------------------------------- seeded data
\* init_db(): the rows it inserts into empty tables.
BUSA_1593 == <<"b", "u", "s", "a", "_", "1", "5", "9", "3">>
TEST_USER == <<"T", "E", "S", "T", "-", "U", "S", "E", "R">>
SEED_MOBILE == <<"0", "1", "0", "2", "0", "4", "1", "1", "5", "9", "3">>
\* The password whose bcrypt hash init_db stores: the hash alone is in the
\* source, so the password is a text of its own that no request carries.
SEED_PASSWORD == <<"t", "e", "s", "t", "p", "w">>

AMAZON == <<"A", "m", "a", "z", "o", "n">>
FLIPKART == <<"F", "l", "i", "p", "k", "a", "r", "t">>
SWIGGY == <<"S", "w", "i", "g", "g", "y">>

\* bcrypt works on the first 72 bytes of the password.
BcryptBytes == 72

\* passlib's bcrypt.hash(pw) and bcrypt.verify(pw, hash): the hash stands for
\* the (truncated) password it was made from; verify compares truncations.
BcryptHash(pw) == [bcrypt |-> Prefix(pw, BcryptBytes)]
BcryptVerify(pw, h) == Prefix(pw, BcryptBytes) = h.bcrypt

reward_brand ==
    << [id |-> 1, name |-> AMAZON, min_points |-> 200, active |-> TRUE],
       [id |-> 2, name |-> FLIPKART, min_points |-> 150, active |-> TRUE],
       [id |-> 3, name |-> SWIGGY, min_points |-> 100, active |-> TRUE] >>

SeedUsers ==
    << [id |-> 1, user_id |-> BUSA_1593, name |-> TEST_USER,
        mobile |-> SEED_MOBILE, password_hash |-> BcryptHash(SEED_PASSWORD),
        points |-> 100, bottles |-> 10] >>

NewMachine(max_capacity) ==
    [current_bottles |-> 0, max_capacity |-> max_capacity, total_bottles |-> 0,
     is_full |-> FALSE, last_emptied |-> "NULL"]

SeedMachines == [m \in {"M001", "M002"} |-> NewMachine(100)]

\* -------------------------------------------------------------------- state
VARIABLES
    users,          \* table users: a sequence of rows in insertion order
    machines,       \* table machines: machine_id -> row
    transactions,   \* table transactions: a sequence of rows in insertion order
    tokens,         \* the identities of the bearer tokens login has issued
    pc,             \* per process: where its request stands
    req,            \* per process: the request it is running
    loc,            \* per process: the handler's local values between steps
    rsp,            \* per process: the response, once pc = "done"
    cpn,            \* the coupon codes formatted for two redemptions
    session,        \* the admin browser's session: the keys set to True
    conn,           \* per process: the database connection of its request
    otp_store,      \* the process's dict of pending codes: phone -> record
    now,            \* the clock, in seconds
    otp_sent        \* per phone: the code and the time of the latest send_otp

vars == <<users, machines, transactions, tokens, pc, req, loc, rsp, cpn,
          session, conn, otp_store, now, otp_sent>>
otp_vars == <<otp_store, now, otp_sent>>
db == <<users, machines, transactions>>

Nil == [op |-> "none"]

Init ==
    /\ users = SeedUsers
    /\ machines = SeedMachines
    /\ transactions = <<>>
    /\ tokens = {}
    /\ pc = [p \in Procs |-> "idle"]
    /\ req = [p \in Procs |-> Nil]
    /\ loc = [p \in Procs |-> Nil]
    /\ rsp = [p \in Procs |-> Nil]
    /\ cpn = <<>>
    /\ session = {}
    /\ conn = [p \in Procs |-> "none"]
    /\ otp_store = << >>
    /\ now = 0
    /\ otp_sent = << >>

\* ------------------------------------------------------------ SQL helpers
\* SELECT * FROM users WHERE user_id = %s (fetchone): the matching rows.
UsersByUserId(user_id) == {i \in 1..Len(users) : users[i].user_id = user_id}
UsersByMobile(mobile) == {i \in 1..Len(users) : users[i].mobile = mobile}
UsersById(id) == {i \in 1..Len(users) : users[i].id = id}

\* dict[key] = value; also a row inserted under its key
DictSet(dict, key, value) ==
    [k \in DOMAIN dict \cup {key} |-> IF k = key THEN value ELSE dict[k]]
\* A del that removes nothing.
DictDelNone(dict, key) == dict
\* del dict[key]
DictDel(dict, key) == [k \in DOMAIN dict \ {key} |-> dict[k]]

\* dict.get(key, default) on the request's JSON object
DataGet(data, key, default) == IF key \in DOMAIN data THEN data[key] ELSE default
\* "if field:" on data.get(field): present and not the empty text
Given(data, key) == key \in DOMAIN data /\ data[key] # <<>>
\* A test that takes every machine id as given.
GivenIdAny(data, key) == TRUE
\* the same for a machine id, which the model keeps as an opaque string
GivenId(data, key) == key \in DOMAIN data /\ data[key] # ""

Unauthorized == [status |-> 401, message |-> "Missing or invalid token"]
ServerError == [status |-> 500]

\* A process answers: the response is held until the client takes it.
Respond(p, response) ==
    /\ pc' = [pc EXCEPT ![p] = "done"]
    /\ rsp' = [rsp EXCEPT ![p] = response]
    /\ loc' = [loc EXCEPT ![p] = Nil]

Return(p) ==
    /\ pc[p] = "done"
    /\ pc' = [pc EXCEPT ![p] = "idle"]
    /\ req' = [req EXCEPT ![p] = Nil]
    /\ rsp' = [rsp EXCEPT ![p] = Nil]
    /\ UNCHANGED <<users, machines, transactions, tokens, loc, cpn, session, otp_vars>>
    /\ conn' = [conn EXCEPT ![p] = "none"]


\* ------------------------------------------- POST /api/machine/insert
\* The request bodies tried: bottle counts that fit, that fill the machine,
\* that exceed it and that are negative; a body with the counts left out
\* (defaults 1 and 10); a user that exists only once "Anna" has registered;
\* an unknown machine; no machine_id; no user_id.
ANNA_5678 == <<"a", "n", "n", "a", "_", "5", "6", "7", "8">>
BottleCounts == {-5, 5, 95}

InsertRequests ==
    {[machine_id |-> "M001", user_id |-> BUSA_1593, bottle_count |-> n,
      points_per_bottle |-> 10] : n \in BottleCounts}
    \cup {[machine_id |-> "M001", user_id |-> BUSA_1593]}
    \cup {[machine_id |-> "M001", user_id |-> ANNA_5678, bottle_count |-> 15]}
    \cup {[machine_id |-> "M404", user_id |-> BUSA_1593, bottle_count |-> 5]}
    \cup {[user_id |-> BUSA_1593, bottle_count |-> 5]}
    \cup {[machine_id |-> "M001", bottle_count |-> 5]}

\* The bodies tried where every endpoint takes part.
ApiInsertRequests ==
    {[machine_id |-> "M001", user_id |-> BUSA_1593, bottle_count |-> 95,
      points_per_bottle |-> 10],
     [machine_id |-> "M001", user_id |-> ANNA_5678, bottle_count |-> 15],
     [machine_id |-> "M001", user_id |-> BUSA_1593, bottle_count |-> -15]}

\* A capacity check that forgets the bottles already in the machine.
available_space_total(machine) == machine.max_capacity
available_space(machine) == machine.max_capacity - machine.current_bottles
new_current(machine, bottle_count) == machine.current_bottles + bottle_count
will_be_full(machine, bottle_count) ==
    new_current(machine, bottle_count) >= machine.max_capacity
\* Points that ignore the bottle count.
earned_points_flat(bottle_count, points_per_bottle) == points_per_bottle
earned_points(bottle_count, points_per_bottle) == bottle_count * points_per_bottle

\* Lines 466-501: parse the body, SELECT the user and the machine, check the
\* capacity, compute what the UPDATEs will write.
MachineInsertRead(p, data) ==
    LET machine_id == DataGet(data, "machine_id", "")
        user_id == DataGet(data, "user_id", <<>>)
        bottle_count == DataGet(data, "bottle_count", 1)
        points_per_bottle == DataGet(data, "points_per_bottle", 10)
        r == [op |-> "machine_insert", machine_id |-> machine_id,
              user_id |-> user_id, bottle_count |-> bottle_count,
              points_per_bottle |-> points_per_bottle]
    IN  /\ pc[p] = "idle"
        /\ req' = [req EXCEPT ![p] = r]
        /\ UNCHANGED <<users, machines, transactions, tokens, cpn, session, otp_vars>>
        /\ conn' = [conn EXCEPT ![p] =
               IF GivenId(data, "machine_id") /\ Given(data, "user_id")
               THEN "open" ELSE "none"]
        /\ IF ~(GivenId(data, "machine_id") /\ Given(data, "user_id"))
           THEN Respond(p, [status |-> 400,
                            message |-> "machine_id and user_id required"])
           ELSE IF UsersByUserId(user_id) = {}
           THEN Respond(p, [status |-> 404, message |-> "User not found"])
           ELSE IF machine_id \notin DOMAIN machines
           THEN Respond(p, [status |-> 404, message |-> "Machine not found"])
           ELSE IF bottle_count > available_space(machines[machine_id])
           THEN Respond(p, [status |-> 400, message |-> "Machine is full!",
                            available_space |-> available_space(machines[machine_id]),
                            requested |-> bottle_count])
           ELSE /\ pc' = [pc EXCEPT ![p] = "insert_write"]
                /\ loc' = [loc EXCEPT ![p] =
                      [available_space |-> available_space(machines[machine_id]),
                       will_be_full |-> will_be_full(machines[machine_id], bottle_count),
                       earned_points |-> earned_points(bottle_count, points_per_bottle)]]
                /\ UNCHANGED rsp

\* An UPDATE that adds the bottles and leaves the points as they are.
UpdateUserEarnBottles(us, user_id, points, bottles) ==
    [i \in 1..Len(us) |->
        IF us[i].user_id = user_id
        THEN [us[i] EXCEPT !.bottles = @ + bottles]
        ELSE us[i]]
\* UPDATE users SET points = points + %s, bottles = bottles + %s WHERE user_id=%s
UpdateUserEarn(us, user_id, points, bottles) ==
    [i \in 1..Len(us) |->
        IF us[i].user_id = user_id
        THEN [us[i] EXCEPT !.points = @ + points, !.bottles = @ + bottles]
        ELSE us[i]]

\* UPDATE machines SET current_bottles = current_bottles + %s,
\*   total_bottles = total_bottles + %s, is_full = %s WHERE machine_id = %s
UpdateMachineInsert(ms, machine_id, bottle_count, full) ==
    [m \in DOMAIN ms |->
        IF m = machine_id
        THEN [ms[m] EXCEPT !.current_bottles = @ + bottle_count,
                           !.total_bottles = @ + bottle_count,
                           !.is_full = full]
        ELSE ms[m]]

\* An insert that overwrites the newest row once there is one.
InsertTransactionOver(rows, row) ==
    IF rows = <<>> THEN <<row>> ELSE [rows EXCEPT ![Len(rows)] = row]
\* INSERT INTO transactions ...: the new row goes after the rows there are.
InsertTransaction(rows, row) == Append(rows, row)

\* The row of lines 517-521; RETURNING id: the id is the next serial.
EarnRow(id, user_id, points, bottles, machine_id) ==
    [id |-> id, user_id |-> user_id, type |-> "earn", points |-> points,
     bottles |-> bottles, machine_id |-> machine_id, brand_id |-> 0]

\* Lines 503-523: the three writes and the commit.
MachineInsertWrite(p) ==
    /\ pc[p] = "insert_write"
    /\ Len(transactions) < MaxTrx
    /\ users' = UpdateUserEarn(users, req[p].user_id, loc[p].earned_points,
                               req[p].bottle_count)
    /\ machines' = UpdateMachineInsert(machines, req[p].machine_id,
                                       req[p].bottle_count, loc[p].will_be_full)
    /\ transactions' = InsertTransaction(transactions,
           EarnRow(Len(transactions) + 1, req[p].user_id, loc[p].earned_points,
                   req[p].bottle_count, req[p].machine_id))
    /\ pc' = [pc EXCEPT ![p] = "insert_fetch"]
    /\ UNCHANGED <<tokens, req, loc, rsp, cpn, session, conn, otp_vars>>

\* The same writes statement by statement.  The three statements run on one
\* connection, which get_db opens without setting autocommit: what they write
\* is seen by nobody else until the commit of line 523, and an exception
\* before it leaves the "with get_db() as conn" block by a rollback.
TxnInsertRequests ==
    {[machine_id |-> "M001", user_id |-> BUSA_1593, bottle_count |-> n,
      points_per_bottle |-> 10] : n \in {5, 95}}

\* A connection on which every statement is committed as it runs.
autocommit_on == TRUE
\* src/app.py lines 93-99: psycopg2.connect, autocommit left at its default.
autocommit == FALSE

\* Lines 504-505.
InsertUpdateUser(p) ==
    /\ pc[p] = "insert_write"
    /\ pc' = [pc EXCEPT ![p] = "insert_stmt_machine"]
    /\ users' = IF autocommit
                THEN UpdateUserEarn(users, req[p].user_id, loc[p].earned_points,
                                    req[p].bottle_count)
                ELSE users
    /\ UNCHANGED <<machines, transactions, tokens, req, loc, rsp, cpn, session,
                   conn, otp_vars>>

\* Lines 508-514.
InsertUpdateMachine(p) ==
    /\ pc[p] = "insert_stmt_machine"
    /\ pc' = [pc EXCEPT ![p] = "insert_stmt_trx"]
    /\ machines' = IF autocommit
                   THEN UpdateMachineInsert(machines, req[p].machine_id,
                            req[p].bottle_count, loc[p].will_be_full)
                   ELSE machines
    /\ UNCHANGED <<users, transactions, tokens, req, loc, rsp, cpn, session,
                   conn, otp_vars>>

\* Lines 517-522.
InsertInsertTransaction(p) ==
    /\ pc[p] = "insert_stmt_trx"
    /\ Len(transactions) < MaxTrx
    /\ pc' = [pc EXCEPT ![p] = "insert_commit"]
    /\ transactions' = IF autocommit
                       THEN InsertTransaction(transactions,
                                EarnRow(Len(transactions) + 1, req[p].user_id,
                                        loc[p].earned_points, req[p].bottle_count,
                                        req[p].machine_id))
                       ELSE transactions
    /\ UNCHANGED <<users, machines, tokens, req, loc, rsp, cpn, session, conn,
                   otp_vars>>

\* Line 523: conn.commit() makes the three writes visible at once; the
\* UPDATEs add their deltas to the rows as committed by then.
InsertCommit(p) ==
    /\ pc[p] = "insert_commit"
    /\ pc' = [pc EXCEPT ![p] = "insert_fetch"]
    /\ IF autocommit
       THEN UNCHANGED <<users, machines, transactions>>
       ELSE /\ Len(transactions) < MaxTrx
            /\ users' = UpdateUserEarn(users, req[p].user_id,
                             loc[p].earned_points, req[p].bottle_count)
            /\ machines' = UpdateMachineInsert(machines, req[p].machine_id,
                                req[p].bottle_count, loc[p].will_be_full)
            /\ transactions' = InsertTransaction(transactions,
                   EarnRow(Len(transactions) + 1, req[p].user_id,
                           loc[p].earned_points, req[p].bottle_count,
                           req[p].machine_id))
    /\ UNCHANGED <<tokens, req, loc, rsp, cpn, session, conn, otp_vars>>

\* A statement or the commit raises (the connection drops, the database
\* refuses a value): the with block rolls back what was not committed and
\* the request is answered 500.
InsertAbort(p) ==
    /\ pc[p] \in {"insert_stmt_machine", "insert_stmt_trx", "insert_commit"}
    /\ Respond(p, ServerError)
    /\ UNCHANGED <<users, machines, transactions, tokens, req, cpn, session,
                   conn, otp_vars>>

\* Lines 525-542: read the user and the machine back for the response.
MachineInsertFetch(p) ==
    LET new_user == users[CHOOSE i \in UsersByUserId(req[p].user_id) : TRUE]
        new_machine == machines[req[p].machine_id]
    IN  /\ pc[p] = "insert_fetch"
        /\ Respond(p, [status |-> 200,
               message |-> "Points and bottles added successfully",
               earned_points |-> loc[p].earned_points,
               bottles_added |-> req[p].bottle_count,
               user_total_points |-> new_user.points,
               user_total_bottles |-> new_user.bottles,
               machine_current_bottles |-> new_machine.current_bottles,
               machine_available_space |->
                   new_machine.max_capacity - new_machine.current_bottles,
               machine_is_full |-> new_machine.is_full])
        /\ UNCHANGED <<users, machines, transactions, tokens, req, cpn, session,
                     conn, otp_vars>>

\* ---------------------------------------------------- the admin console
\* redirect(url_for(endpoint))
Redirect(endpoint) == [status |-> 302, location |-> endpoint]

\* A decorator that lets every request through.
admin_required_open(p, view) == view
\* src/admin.py lines 79-85: the decorator of the console's views.  Without
\* the session flag the view is not run and the answer is a redirect to the
\* login page.
admin_required(p, view) ==
    IF "admin_logged_in" \notin session
    THEN Respond(p, Redirect("admin_login"))
    ELSE view

\* The forms posted to the login page; the last one has no fields.
AdminLoginForms ==
    {[username |-> "polygreen", password |-> "poly123"],
     [username |-> "polygreen", password |-> "wrong"],
     [username |-> "admin", password |-> "poly123"],
     [username |-> "None", password |-> "None"]}

\* src/admin.py lines 92-103: GET renders the login page; POST compares the
\* form with the fixed pair.
AdminLogin(p, method, form) ==
    /\ pc[p] = "idle"
    /\ req' = [req EXCEPT ![p] = [op |-> "admin_login", method |-> method,
                                  form |-> form]]
    /\ UNCHANGED <<users, machines, transactions, tokens, cpn, conn, otp_vars>>
    /\ IF method = "POST" /\ form.username = "polygreen"
                          /\ form.password = "poly123"
       THEN /\ session' = session \cup {"admin_logged_in"}
            /\ Respond(p, Redirect("admin_dashboard"))
       ELSE /\ UNCHANGED session
            /\ Respond(p, [status |-> 200, page |-> "admin/login.html"])

\* src/admin.py lines 730-733: no decorator; session.pop, then the redirect.
AdminLogout(p) ==
    /\ pc[p] = "idle"
    /\ req' = [req EXCEPT ![p] = [op |-> "admin_logout"]]
    /\ session' = session \ {"admin_logged_in"}
    /\ Respond(p, Redirect("admin_login"))
    /\ UNCHANGED <<users, machines, transactions, tokens, cpn, conn, otp_vars>>

\* src/admin.py lines 87-89: the landing page "/", no decorator.
Home(p) ==
    /\ pc[p] = "idle"
    /\ req' = [req EXCEPT ![p] = [op |-> "home"]]
    /\ Respond(p, [status |-> 200, page |-> "admin/index.html"])
    /\ UNCHANGED <<users, machines, transactions, tokens, cpn, session, conn, otp_vars>>

\* The console's listing views (dashboard, users, machines, transactions):
\* each is decorated with admin_required, reads the tables and renders its
\* page.
AdminViews ==
    {"admin_dashboard", "admin_users", "admin_machines", "admin_transactions"}

AdminView(p, endpoint) ==
    /\ pc[p] = "idle"
    /\ req' = [req EXCEPT ![p] = [op |-> endpoint]]
    /\ admin_required(p, Respond(p, [status |-> 200, page |-> endpoint,
                                     rows |-> db]))
    /\ UNCHANGED <<users, machines, transactions, tokens, cpn, session, otp_vars>>
    /\ conn' = [conn EXCEPT ![p] =
           IF "admin_logged_in" \in session THEN "closed" ELSE "none"]

\* ------------------------------------------- GET, POST /admin/machines/add
\* The forms tried: a new machine id and one that exists; max_capacity is any
\* integer the form field parses to.
AddMachineIds == {"M003", "M001"}
AddCapacities == {50, -10}

\* src/admin.py lines 614-646.
AdminAddMachine(p, method, machine_id, max_capacity) ==
    /\ pc[p] = "idle"
    /\ req' = [req EXCEPT ![p] = [op |-> "add_machine", method |-> method,
                                  machine_id |-> machine_id,
                                  max_capacity |-> max_capacity]]
    /\ IF "admin_logged_in" \notin session
       THEN /\ Respond(p, Redirect("admin_login"))
            /\ UNCHANGED <<machines, conn>>
       ELSE IF method = "GET"
       THEN /\ Respond(p, [status |-> 200, page |-> "admin/add_machine.html"])
            /\ UNCHANGED <<machines, conn>>
       ELSE IF machine_id \in DOMAIN machines
       THEN /\ Respond(p, [status |-> 302, location |-> "admin_add_machine",
                           flash |-> "already exists"])
            /\ conn' = [conn EXCEPT ![p] = "closed"]
            /\ UNCHANGED machines
       ELSE /\ machines' = DictSet(machines, machine_id, NewMachine(max_capacity))
            /\ Respond(p, [status |-> 302, location |-> "admin_machines",
                           flash |-> "added successfully"])
            /\ conn' = [conn EXCEPT ![p] = "closed"]
    /\ UNCHANGED <<users, transactions, tokens, cpn, session, otp_vars>>

\* ------------------------------- GET /admin/machines/<machine_id>/report
ReportMachineIds == {"M001", "M404"}

\* src/admin.py lines 543-580: the connection is closed by hand after the two
\* SELECTs; abort(404) leaves the function before that.
AdminMachineDetailPdf(p, machine_id) ==
    /\ pc[p] = "idle"
    /\ req' = [req EXCEPT ![p] = [op |-> "admin_machine_detail_pdf",
                                  machine_id |-> machine_id]]
    /\ admin_required(p,
         IF machine_id \notin DOMAIN machines
         THEN Respond(p, [status |-> 404])
         ELSE Respond(p, [status |-> 200, download_name |-> machine_id,
                          current_bottles |-> machines[machine_id].current_bottles,
                          max_capacity |-> machines[machine_id].max_capacity,
                          transactions |-> SelectSeq(transactions,
                              LAMBDA t : t.machine_id = machine_id)]))
    /\ conn' = [conn EXCEPT ![p] =
           IF "admin_logged_in" \notin session THEN "none"
           ELSE IF machine_id \in DOMAIN machines THEN "closed" ELSE "open"]
    /\ UNCHANGED <<users, machines, transactions, tokens, cpn, session, otp_vars>>

\* A connection that was not closed is closed when the interpreter collects
\* the connection object, at a time of its choosing.
Collect(p) ==
    /\ pc[p] = "done"
    /\ conn[p] = "open"
    /\ conn' = [conn EXCEPT ![p] = "closed"]
    /\ UNCHANGED <<users, machines, transactions, tokens, pc, req, loc, rsp, cpn,
                   session, otp_vars>>

\* ------------------------------- POST /admin/machine/<machine_id>/empty
EmptyMachineIds == {"M001", "M404"}

\* Lines 586-595: SELECT the machine; abort(404) when there is none.
AdminEmptyMachineRead(p, machine_id) ==
    /\ pc[p] = "idle"
    /\ req' = [req EXCEPT ![p] = [op |-> "empty_machine", machine_id |-> machine_id]]
    /\ UNCHANGED <<users, machines, transactions, tokens, cpn, session, otp_vars>>
    /\ conn' = [conn EXCEPT ![p] =
           IF "admin_logged_in" \notin session THEN "none"
           ELSE IF machine_id \in DOMAIN machines THEN "open" ELSE "closed"]
    /\ admin_required(p,
         IF machine_id \notin DOMAIN machines
         THEN Respond(p, [status |-> 404])
         ELSE /\ pc' = [pc EXCEPT ![p] = "empty_write"]
              /\ loc' = [loc EXCEPT ![p] =
                    [previous_count |-> machines[machine_id].current_bottles]]
              /\ UNCHANGED rsp)

\* An UPDATE that also resets the cumulative counter.
UpdateMachineEmptyAll(ms, machine_id) ==
    [m \in DOMAIN ms |->
        IF m = machine_id
        THEN [ms[m] EXCEPT !.current_bottles = 0, !.total_bottles = 0,
                           !.is_full = FALSE, !.last_emptied = "NOW"]
        ELSE ms[m]]
\* UPDATE machines SET current_bottles = 0, is_full = FALSE,
\*   last_emptied = NOW() WHERE machine_id = %s
UpdateMachineEmpty(ms, machine_id) ==
    [m \in DOMAIN ms |->
        IF m = machine_id
        THEN [ms[m] EXCEPT !.current_bottles = 0, !.is_full = FALSE,
                           !.last_emptied = "NOW"]
        ELSE ms[m]]

\* Lines 597-610: the UPDATE, the commit, the flash message and the redirect.
AdminEmptyMachineWrite(p) ==
    /\ pc[p] = "empty_write"
    /\ machines' = UpdateMachineEmpty(machines, req[p].machine_id)
    /\ Respond(p, [status |-> 302, location |-> "admin_machine_detail",
                   flash |-> "emptied successfully",
                   bottles_collected |-> loc[p].previous_count])
    /\ UNCHANGED <<users, transactions, tokens, req, cpn, session, otp_vars>>
    /\ conn' = [conn EXCEPT ![p] = "closed"]

\* ------------------------------------------------ POST /api/auth/register
ANNA == <<"A", "n", "n", "a">>
ANNABEL == <<"a", "n", "n", "a", "b", "e", "l">>
NAME_12 == <<"1", "2">>
MOBILE_A == <<"1", "1", "1", "1", "5", "6", "7", "8">>
MOBILE_B == <<"2", "2", "2", "2", "5", "6", "7", "8">>
PW == <<"p", "w">>
PW_SPACED == <<" ", "p", "w">>

Mobiles == {MOBILE_A, MOBILE_B}
Passwords == {PW, PW_SPACED}

\* The request bodies tried.  With every field given: Anna; Annabel, whose
\* other mobile ends in the same four digits (the same derived user_id);
\* "12", on Anna's mobile, whose user_id reads as an integer.  Then each one
\* field left out, and an empty name.
RegisterRequests ==
    {[name |-> ANNA, mobile |-> MOBILE_A, password |-> PW],
     [name |-> ANNABEL, mobile |-> MOBILE_B, password |-> PW_SPACED],
     [name |-> NAME_12, mobile |-> MOBILE_A, password |-> PW],
     [mobile |-> MOBILE_A, password |-> PW],
     [name |-> ANNA, password |-> PW],
     [name |-> ANNA, mobile |-> MOBILE_A],
     [name |-> <<>>, mobile |-> MOBILE_A, password |-> PW]}

\* Lines 110-115.
generate_user_id(name, mobile) ==
    Lower(Prefix(name, 4)) \o <<"_">> \o Suffix(mobile, 4)

\* Line 222: mobile = str(data.get("mobile"))
RegisterMobile(data) == IF "mobile" \in DOMAIN data THEN data.mobile ELSE NoneStr

\* Line 225: if not (name and mobile and password)
RegisterMissing(data) ==
    ~(Given(data, "name") /\ RegisterMobile(data) # <<>> /\ Given(data, "password"))

\* A uniqueness check on the mobile alone.
RegisterTakenMobile(mobile, user_id) ==
    {i \in 1..Len(users) : users[i].mobile = mobile}
\* Line 233: SELECT id FROM users WHERE mobile=%s OR user_id=%s
RegisterTaken(mobile, user_id) == UsersByMobile(mobile) \cup UsersByUserId(user_id)

UserRow(id, user_id, name, mobile, password_hash) ==
    [id |-> id, user_id |-> user_id, name |-> name, mobile |-> mobile,
     password_hash |-> password_hash, points |-> 0, bottles |-> 0]

\* Lines 218-248.  The SELECT and the INSERT are one step.
Register(p, data) ==
    LET mobile == RegisterMobile(data)
        user_id == generate_user_id(data.name, mobile)
    IN  /\ pc[p] = "idle"
        /\ req' = [req EXCEPT ![p] = [op |-> "register", data |-> data]]
        /\ UNCHANGED <<machines, transactions, tokens, cpn, session, otp_vars>>
        /\ conn' = [conn EXCEPT ![p] =
               IF RegisterMissing(data) THEN "none" ELSE "open"]
        /\ IF RegisterMissing(data)
           THEN /\ Respond(p, [status |-> 400, message |-> "Missing fields"])
                /\ UNCHANGED users
           ELSE IF RegisterTaken(mobile, user_id) # {}
           THEN /\ Respond(p, [status |-> 400,
                               message |-> "mobile or user_id already used"])
                /\ UNCHANGED users
           ELSE /\ Len(users) < MaxUsers
                /\ users' = Append(users,
                       UserRow(Len(users) + 1, user_id, data.name, mobile,
                               BcryptHash(data.password)))
                /\ Respond(p, [status |-> 201, message |-> "Registered",
                               user_id |-> user_id])

\* The same handler in its two database steps, for requests that overlap:
\* lines 230-235, the SELECT on a connection of its own (READ COMMITTED: it
\* sees the rows committed so far) ...
ConcurrentRegisterRequests ==
    {[name |-> ANNA, mobile |-> MOBILE_A, password |-> PW],
     [name |-> NAME_12, mobile |-> MOBILE_A, password |-> PW],
     [name |-> ANNABEL, mobile |-> MOBILE_B, password |-> PW_SPACED],
     [name |-> ANNA, mobile |-> MOBILE_A]}

RegisterCheck(p, data) ==
    LET mobile == RegisterMobile(data)
        user_id == generate_user_id(data.name, mobile)
    IN  /\ pc[p] = "idle"
        /\ req' = [req EXCEPT ![p] = [op |-> "register", data |-> data]]
        /\ UNCHANGED <<users, machines, transactions, tokens, cpn, session,
                       otp_vars>>
        /\ conn' = [conn EXCEPT ![p] =
               IF RegisterMissing(data) THEN "none" ELSE "open"]
        /\ IF RegisterMissing(data)
           THEN Respond(p, [status |-> 400, message |-> "Missing fields"])
           ELSE IF RegisterTaken(mobile, user_id) # {}
           THEN Respond(p, [status |-> 400,
                            message |-> "mobile or user_id already used"])
           ELSE /\ pc' = [pc EXCEPT ![p] = "register_insert"]
                /\ loc' = [loc EXCEPT ![p] = [user_id |-> user_id]]
                /\ UNCHANGED rsp

\* ... and lines 237-248, the INSERT and the commit.  The tables are made by
\* hand outside this code: where users has a unique index on mobile or
\* user_id, an INSERT that repeats a committed value raises and the request
\* is answered 500; where it has none, the row goes in.
RegisterInsert(p) ==
    LET data == req[p].data
        mobile == RegisterMobile(data)
    IN  /\ pc[p] = "register_insert"
        /\ UNCHANGED <<machines, transactions, tokens, req, cpn, session, conn,
                       otp_vars>>
        /\ \/ /\ Len(users) < MaxUsers
              /\ users' = Append(users,
                     UserRow(Len(users) + 1, loc[p].user_id, data.name, mobile,
                             BcryptHash(data.password)))
              /\ Respond(p, [status |-> 201, message |-> "Registered",
                             user_id |-> loc[p].user_id])
           \/ /\ RegisterTaken(mobile, loc[p].user_id) # {}
              /\ Respond(p, ServerError)
              /\ UNCHANGED users

\* --------------------------------------------------- POST /api/auth/login
\* str.strip()
RECURSIVE LStrip(_)
LStrip(s) == IF Len(s) > 0 /\ s[1] = " " THEN LStrip(Tail(s)) ELSE s
RECURSIVE RStrip(_)
RStrip(s) == IF Len(s) > 0 /\ s[Len(s)] = " "
             THEN RStrip(SubSeq(s, 1, Len(s) - 1)) ELSE s
Strip(s) == RStrip(LStrip(s))

LoginRequests ==
    {[mobile |-> m, password |-> w] : m \in Mobiles, w \in Passwords}
    \cup {[mobile |-> SEED_MOBILE, password |-> PW],
          [mobile |-> NoneStr, password |-> PW],
          [password |-> PW]}

\* create_access_token(identity=str(u["user_id"]), ...): the token is its
\* identity claim; jwt_required accepts the tokens login has issued.
Login(p, data) ==
    LET mobile == Strip(DataGet(data, "mobile", <<>>))
        password == Strip(DataGet(data, "password", <<>>))
        found == UsersByMobile(mobile)
        u == users[CHOOSE i \in found : TRUE]
        password_truncated == Prefix(password, BcryptBytes)
    IN  /\ pc[p] = "idle"
        /\ req' = [req EXCEPT ![p] = [op |-> "login", data |-> data]]
        /\ UNCHANGED <<users, machines, transactions, cpn, session, otp_vars>>
        /\ conn' = [conn EXCEPT ![p] =
               IF mobile # <<>> /\ password # <<>> /\ IsDigit(mobile)
                  /\ 8 <= Len(mobile) /\ Len(mobile) <= 15
               THEN "open" ELSE "none"]
        /\ IF mobile = <<>> \/ password = <<>>
           THEN /\ Respond(p, [status |-> 400,
                               message |-> "Missing mobile or password"])
                /\ UNCHANGED tokens
           ELSE IF ~(IsDigit(mobile) /\ 8 <= Len(mobile) /\ Len(mobile) <= 15)
           THEN /\ Respond(p, [status |-> 400,
                               message |-> "Invalid mobile number format"])
                /\ UNCHANGED tokens
           ELSE IF found = {} \/ ~BcryptVerify(password_truncated, u.password_hash)
           THEN /\ Respond(p, [status |-> 401, message |-> "Invalid credentials"])
                /\ UNCHANGED tokens
           ELSE /\ tokens' = tokens \cup {u.user_id}
                /\ Respond(p, [status |-> 200, access_token |-> u.user_id,
                               user |-> [user_id |-> u.user_id, name |-> u.name,
                                         mobile |-> u.mobile, points |-> u.points,
                                         bottles |-> u.bottles]])

\* ------------------------------------------------------ bearer endpoints
\* A query parameter is a str or an int; users.user_id and
\* transactions.user_id hold text (register and machine_insert write text
\* into them), and PostgreSQL has no operator "text = integer".
StrParam(s) == [int |-> FALSE, s |-> s, n |-> 0]
IntParam(n) == [int |-> TRUE, s |-> <<>>, n |-> n]

\* Lines 200-210: the row, or a 404 response object returned (not raised) to
\* the caller, or the driver's exception.
get_user_or_404(user_id) ==
    IF user_id.int THEN [kind |-> "error", row |-> Nil]
    ELSE IF UsersByUserId(user_id.s) = {} THEN [kind |-> "response", row |-> Nil]
    ELSE [kind |-> "row", row |-> users[CHOOSE i \in UsersByUserId(user_id.s) : TRUE]]


\* A token nobody was issued, next to the issued ones.
FORGED == <<"f", "o", "r", "g", "e", "d">>
Bearers == tokens \cup {FORGED}

\* Lines 291-304: GET /api/users/me
Me(p, token) ==
    LET uid_str == token
        u == get_user_or_404(StrParam(uid_str))
    IN  /\ pc[p] = "idle"
        /\ req' = [req EXCEPT ![p] = [op |-> "me", token |-> token]]
        /\ UNCHANGED <<users, machines, transactions, tokens, cpn, session, otp_vars>>
        /\ conn' = [conn EXCEPT ![p] =
               IF token \in tokens THEN "open" ELSE "none"]
        /\ IF token \notin tokens THEN Respond(p, Unauthorized)
           ELSE IF u.kind # "row" THEN Respond(p, ServerError)
           ELSE Respond(p, [status |-> 200, id |-> u.row.id, name |-> u.row.name,
                            mobile |-> u.row.mobile, points |-> u.row.points,
                            bottles |-> u.row.bottles])

\* SELECT ... FROM transactions WHERE user_id=%s (a str parameter)
TransactionsOf(user_id) ==
    SelectSeq(transactions, LAMBDA t : t.user_id = user_id)

\* Lines 307-332: GET /api/points/summary (the five latest rows)
PointsSummary(p, token) ==
    LET user_id == token
        u == get_user_or_404(StrParam(user_id))
        mine == TransactionsOf(user_id)
        recent == [i \in 1..Min(5, Len(mine)) |-> mine[Len(mine) + 1 - i].id]
    IN  /\ pc[p] = "idle"
        /\ req' = [req EXCEPT ![p] = [op |-> "points_summary", token |-> token]]
        /\ UNCHANGED <<users, machines, transactions, tokens, cpn, session, otp_vars>>
        /\ conn' = [conn EXCEPT ![p] =
               IF token \in tokens THEN "open" ELSE "none"]
        /\ IF token \notin tokens THEN Respond(p, Unauthorized)
           ELSE IF u.kind # "row" THEN Respond(p, ServerError)
           ELSE Respond(p, [status |-> 200, total_points |-> u.row.points,
                            recent |-> recent])

\* SELECT ... FROM transactions WHERE user_id=%s with any parameter
SelectTransactions(user_id) ==
    IF user_id.int THEN [kind |-> "error", rows |-> <<>>]
    ELSE [kind |-> "rows", rows |-> TransactionsOf(user_id.s)]

\* Lines 335-352: GET /api/transactions.  int(uid_str) raises ValueError
\* unless the identity reads as an integer.
Transactions(p, token) ==
    LET uid_str == token
        uid == PyInt(uid_str)
        rows == SelectTransactions(IntParam(uid.v))
    IN  /\ pc[p] = "idle"
        /\ req' = [req EXCEPT ![p] = [op |-> "transactions", token |-> token]]
        /\ UNCHANGED <<users, machines, transactions, tokens, cpn, session, otp_vars>>
        /\ conn' = [conn EXCEPT ![p] =
               IF token \in tokens /\ uid.ok THEN "open" ELSE "none"]
        /\ IF token \notin tokens THEN Respond(p, Unauthorized)
           ELSE IF ~uid.ok THEN Respond(p, ServerError)
           ELSE IF rows.kind = "error" THEN Respond(p, ServerError)
           ELSE Respond(p, [status |-> 200,
                            items |-> [i \in 1..Len(rows.rows) |-> rows.rows[i].id]])

\* ------------------------------------------------ POST /api/redeem/request
RedeemBrandIds == {3, 9}
RedeemPoints == {50, 100, 150}
RedeemRequests ==
    {[brand_id |-> b, points |-> n] : b \in RedeemBrandIds, n \in RedeemPoints}

\* SELECT * FROM reward_brand WHERE id=%s
BrandsById(brand_id) ==
    {i \in 1..Len(reward_brand) : reward_brand[i].id = brand_id}

\* Line 401: f"{brand['name'][:3].upper()}-{u['id']}-{str(trx_id).zfill(4)}"
Coupon(brand_name, user_id, trx_id) ==
    Upper(Prefix(brand_name, 3)) \o <<"-">> \o IntStr(user_id) \o <<"-">>
        \o ZFill(IntStr(trx_id), 4)

\* UPDATE users SET points = points - %s WHERE id=%s
UpdateUserRedeem(us, id, pts) ==
    [i \in 1..Len(us) |->
        IF us[i].id = id THEN [us[i] EXCEPT !.points = @ - pts] ELSE us[i]]

\* INSERT INTO transactions (user_id, type, points, brand_id, created_at):
\* the integer users.id goes into the text column user_id; bottles and
\* machine_id stay NULL (0 and "" here).
RedeemRow(id, user_id, points, brand_id) ==
    [id |-> id, user_id |-> IntStr(user_id), type |-> "redeem", points |-> points,
     bottles |-> 0, machine_id |-> "", brand_id |-> brand_id]

\* Lines 365-402.  uid = int(uid_str); u = get_user_or_404(uid); then the
\* brand check, the threshold check, the balance check, the UPDATE, the
\* INSERT, the commit and the coupon.
RedeemRequest(p, token, data) ==
    LET uid_str == token
        uid == PyInt(uid_str)
        u == get_user_or_404(IntParam(uid.v))
        brand_id == DataGet(data, "brand_id", 0)
        pts == DataGet(data, "points", 0)
        brand == reward_brand[CHOOSE i \in BrandsById(brand_id) : TRUE]
        user_rows == UsersById(u.row.id)
        user_row == users[CHOOSE i \in user_rows : TRUE]
        trx_id == Len(transactions) + 1
    IN  /\ pc[p] = "idle"
        /\ req' = [req EXCEPT ![p] =
              [op |-> "redeem_request", token |-> token, brand_id |-> brand_id,
               points |-> pts]]
        /\ UNCHANGED <<machines, tokens, cpn, session, otp_vars>>
        /\ conn' = [conn EXCEPT ![p] =
                       IF token \in tokens /\ uid.ok THEN "open" ELSE "none"]
        /\ IF token \notin tokens
           THEN Respond(p, Unauthorized) /\ UNCHANGED <<users, transactions>>
           ELSE IF ~uid.ok \/ u.kind = "error"
           THEN Respond(p, ServerError) /\ UNCHANGED <<users, transactions>>
           ELSE IF BrandsById(brand_id) = {} \/ ~brand.active
           THEN /\ Respond(p, [status |-> 400, message |-> "Invalid brand"])
                /\ UNCHANGED <<users, transactions>>
           ELSE IF pts < brand.min_points
           THEN /\ Respond(p, [status |-> 400,
                               message |-> "Minimum required for this brand"])
                /\ UNCHANGED <<users, transactions>>
           ELSE IF u.kind = "response"
           THEN Respond(p, ServerError) /\ UNCHANGED <<users, transactions>>
           ELSE IF user_rows = {} \/ user_row.points < pts
           THEN /\ Respond(p, [status |-> 400, message |-> "Not enough points"])
                /\ UNCHANGED <<users, transactions>>
           ELSE /\ Len(transactions) < MaxTrx
                /\ users' = UpdateUserRedeem(users, u.row.id, pts)
                /\ transactions' = InsertTransaction(transactions,
                       RedeemRow(trx_id, u.row.id, pts, brand.id))
                /\ Respond(p, [status |-> 200, message |-> "Redeem successful",
                       coupon |-> Coupon(brand.name, u.row.id, trx_id)])

\* The coupon line on its own: two redemptions' brand name, user id and
\* transaction id, and the code formatted for each.
CouponBrandNames == {AMAZON, SWIGGY, <<"a", "-", "1", "z">>, <<"h", "i">>}
CouponUserIds == {1, 2, 12}
CouponTrxIds == {1, 2, 12, 9999, 10001, 10002}

CouponEntry(brand_name, user_id, trx_id) ==
    [brand_name |-> brand_name, user_id |-> user_id, trx_id |-> trx_id,
     coupon |-> Coupon(brand_name, user_id, trx_id)]

FormatCoupons(b1, u1, t1, b2, u2, t2) ==
    /\ cpn = <<>>
    /\ cpn' = <<CouponEntry(b1, u1, t1), CouponEntry(b2, u2, t2)>>
    /\ UNCHANGED <<users, machines, transactions, tokens, pc, req, loc, rsp,
                   session, conn, otp_vars>>

\* ------------------------------------------------------------ specification
\* ------------------------------------------ POST /send_otp, /verify_otp
\* The phones and codes tried; random.randint(1000, 9999) draws the code.
Phones == {"+911", "+912"}
OtpCodes == {1000, 9999}
SmsStatuses == {"0", "1"}

\* The otp field of a verify request: a JSON number or a JSON string.
IntValue(n) == [int |-> TRUE, n |-> n, s |-> <<>>]
StrValue(t) == [int |-> FALSE, n |-> 0, s |-> t]
SubmittedOtps ==
    {IntValue(1000), IntValue(9999), StrValue(<<"1", "0", "0", "0">>),
     StrValue(<<"0", "1", "0", "0", "0">>)}
\* str(value)
PyStr(v) == IF v.int THEN IntStr(v.n) ELSE v.s

\* The clock's steps, in seconds.
Ticks == {100, 101}
OtpLifetime == 300

Tick(d) ==
    /\ now + d <= MaxTime
    /\ now' = now + d
    /\ UNCHANGED <<users, machines, transactions, tokens, pc, req, loc, rsp, cpn,
                   session, conn, otp_store, otp_sent>>

\* Lines 38-68.  phone is "" when the request has none.  The record is
\* stored before the gateway is called, whatever the gateway answers.
SendOtp(p, phone, otp, status) ==
    /\ pc[p] = "idle"
    /\ req' = [req EXCEPT ![p] = [op |-> "send_otp", phone |-> phone]]
    /\ IF phone = ""
       THEN /\ Respond(p, [ok |-> FALSE, error |-> "phone is required"])
            /\ UNCHANGED <<otp_store, otp_sent>>
       ELSE /\ otp_store' = DictSet(otp_store, phone,
                               [otp |-> otp, expires |-> now + OtpLifetime])
            /\ otp_sent' = DictSet(otp_sent, phone, [otp |-> otp, at |-> now])
            /\ IF status = "0"
               THEN Respond(p, [ok |-> TRUE, message |-> "OTP sent successfully"])
               ELSE Respond(p, [ok |-> FALSE, error |-> "error-text"])
    /\ UNCHANGED <<users, machines, transactions, tokens, cpn, session, conn, now>>

\* A check that lets a record live for ever.
OtpExpiredNever(record, t) == FALSE
\* Line 81: time.time() > record["expires"]
OtpExpired(record, t) == t > record.expires

\* Lines 71-89.
VerifyOtp(p, phone, otp) ==
    /\ pc[p] = "idle"
    /\ req' = [req EXCEPT ![p] = [op |-> "verify_otp", phone |-> phone,
                                  otp |-> otp]]
    /\ IF phone \notin DOMAIN otp_store
       THEN /\ Respond(p, [ok |-> FALSE, error |-> "OTP expired or not found"])
            /\ UNCHANGED otp_store
       ELSE IF OtpExpired(otp_store[phone], now)
       THEN /\ Respond(p, [ok |-> FALSE, error |-> "OTP expired"])
            /\ UNCHANGED otp_store
       ELSE IF IntStr(otp_store[phone].otp) = PyStr(otp)
       THEN /\ otp_store' = DictDel(otp_store, phone)
            /\ Respond(p, [ok |-> TRUE, message |-> "OTP verified"])
       ELSE /\ Respond(p, [ok |-> FALSE, error |-> "Incorrect OTP"])
            /\ UNCHANGED otp_store
    /\ UNCHANGED <<users, machines, transactions, tokens, cpn, session, conn, now,
                   otp_sent>>

Next ==
    \/ \E p \in Procs : \E data \in InsertRequests : MachineInsertRead(p, data)
    \/ \E p \in Procs : MachineInsertWrite(p)
    \/ \E p \in Procs : MachineInsertFetch(p)
    \/ \E p \in Procs : \E method \in {"GET", "POST"} :
           \E form \in AdminLoginForms : AdminLogin(p, method, form)
    \/ \E p \in Procs : \E m \in EmptyMachineIds : AdminEmptyMachineRead(p, m)
    \/ \E p \in Procs : AdminEmptyMachineWrite(p)
    \/ \E p \in Procs : Collect(p)
    \/ \E p \in Procs : Return(p)

Spec == Init /\ [][Next]_vars

\* Every endpoint, one request at a time.
NextApi ==
    \/ \E data \in RegisterRequests : Register("p1", data)
    \/ \E data \in LoginRequests : Login("p1", data)
    \/ \E token \in Bearers : Me("p1", token)
    \/ \E token \in Bearers : PointsSummary("p1", token)
    \/ \E token \in Bearers : Transactions("p1", token)
    \/ \E token \in Bearers : \E data \in RedeemRequests :
           RedeemRequest("p1", token, data)
    \/ \E data \in ApiInsertRequests : MachineInsertRead("p1", data)
    \/ MachineInsertWrite("p1")
    \/ MachineInsertFetch("p1")
    \/ \E method \in {"GET", "POST"} : \E form \in AdminLoginForms :
           AdminLogin("p1", method, form)
    \/ AdminLogout("p1")
    \/ Home("p1")
    \/ \E endpoint \in AdminViews : AdminView("p1", endpoint)
    \/ \E method \in {"GET", "POST"} : \E m \in AddMachineIds :
           \E max_capacity \in AddCapacities :
               AdminAddMachine("p1", method, m, max_capacity)
    \/ \E m \in ReportMachineIds : AdminMachineDetailPdf("p1", m)
    \/ Collect("p1")
    \/ \E m \in EmptyMachineIds : AdminEmptyMachineRead("p1", m)
    \/ AdminEmptyMachineWrite("p1")
    \/ Return("p1")

SpecApi == Init /\ [][NextApi]_vars

\* Overlapping deposits, statement by statement.
NextTxn ==
    \/ \E p \in Procs : \E data \in TxnInsertRequests : MachineInsertRead(p, data)
    \/ \E p \in Procs : InsertUpdateUser(p)
    \/ \E p \in Procs : InsertUpdateMachine(p)
    \/ \E p \in Procs : InsertInsertTransaction(p)
    \/ \E p \in Procs : InsertCommit(p)
    \/ \E p \in Procs : InsertAbort(p)
    \/ \E p \in Procs : MachineInsertFetch(p)
    \/ \E p \in Procs : Return(p)

SpecTxn == Init /\ [][NextTxn]_vars

\* Overlapping registrations.
NextRegister ==
    \/ \E p \in Procs : \E data \in ConcurrentRegisterRequests :
           RegisterCheck(p, data)
    \/ \E p \in Procs : RegisterInsert(p)
    \/ \E p \in Procs : Collect(p)
    \/ \E p \in Procs : Return(p)

SpecRegister == Init /\ [][NextRegister]_vars

\* The two OTP endpoints and the clock.
NextOtp ==
    \/ \E phone \in Phones \cup {""} : \E otp \in OtpCodes :
           \E status \in SmsStatuses : SendOtp("p1", phone, otp, status)
    \/ \E phone \in Phones \cup {""} : \E otp \in SubmittedOtps :
           VerifyOtp("p1", phone, otp)
    \/ \E d \in Ticks : Tick(d)
    \/ Return("p1")

SpecOtp == Init /\ [][NextOtp]_vars

NextCoupon ==
    \E b1, b2 \in CouponBrandNames : \E u1, u2 \in CouponUserIds :
        \E t1, t2 \in CouponTrxIds : FormatCoupons(b1, u1, t1, b2, u2, t2)

SpecCoupon == Init /\ [][NextCoupon]_vars

\* =================================================================== claims
\* What a step of process p is, read off the state before and after it.
StartsInsert(p) ==
    pc[p] = "idle" /\ pc'[p] # "idle" /\ req'[p].op = "machine_insert"
CommitsInsert(p) == pc[p] = "insert_write" /\ pc'[p] = "insert_fetch"
AnswersInsert(p) == pc[p] = "insert_fetch" /\ pc'[p] = "done"

\* The machine row and the user rows a machine_insert request names, in the
\* committed tables.
InsertNamesRows(r) ==
    /\ UsersByUserId(r.user_id) # {}
    /\ r.machine_id \in DOMAIN machines

\* C1: a machine_insert request that names an existing user and an existing
\* machine with bottle_count <= max_capacity - current_bottles is accepted and
\* answered 200, and its commit adds bottle_count to the machine's
\* current_bottles and total_bottles and to the user's bottles, and
\* bottle_count * points_per_bottle to the user's points.
C1_DepositApplies ==
    [][\A p \in Procs :
        /\ ( /\ StartsInsert(p)
             /\ InsertNamesRows(req'[p])
             /\ req'[p].bottle_count
                  <= machines[req'[p].machine_id].max_capacity
                     - machines[req'[p].machine_id].current_bottles )
           => pc'[p] = "insert_write"
        /\ CommitsInsert(p) =>
             LET r == req[p]
                 m == r.machine_id
             IN  /\ machines'[m].current_bottles
                      = machines[m].current_bottles + r.bottle_count
                 /\ machines'[m].total_bottles
                      = machines[m].total_bottles + r.bottle_count
                 /\ Len(users') = Len(users)
                 /\ \A i \in UsersByUserId(r.user_id) :
                      /\ users'[i].points
                           = users[i].points + r.bottle_count * r.points_per_bottle
                      /\ users'[i].bottles = users[i].bottles + r.bottle_count
        /\ AnswersInsert(p) => rsp'[p].status = 200
    ]_vars

\* C1 witness: a deposit of 95 bottles at 10 points each into the empty
\* M001 by the seeded user (100 points, 10 bottles) has been answered.
C1_Witness ==
    \E p \in Procs :
        /\ pc[p] = "done" /\ req[p].op = "machine_insert" /\ rsp[p].status = 200
        /\ req[p].bottle_count = 95
        /\ machines["M001"].current_bottles = 95
        /\ machines["M001"].total_bottles = 95
        /\ users[1].points = 1050 /\ users[1].bottles = 105

\* C2: a machine_insert request with bottle_count > max_capacity -
\* current_bottles is answered 400 with the available space and the requested
\* count, and users, machines and transactions are as before the request.
C2_CapacityRejected ==
    [][\A p \in Procs :
        ( /\ StartsInsert(p)
          /\ InsertNamesRows(req'[p])
          /\ req'[p].bottle_count
               > machines[req'[p].machine_id].max_capacity
                 - machines[req'[p].machine_id].current_bottles )
        => /\ pc'[p] = "done"
           /\ rsp'[p].status = 400
           /\ rsp'[p].message = "Machine is full!"
           /\ rsp'[p].available_space
                = machines[req'[p].machine_id].max_capacity
                  - machines[req'[p].machine_id].current_bottles
           /\ rsp'[p].requested = req'[p].bottle_count
           /\ UNCHANGED <<users, machines, transactions>>
    ]_vars

\* C2 witness: with 95 bottles in M001 (capacity 100) a deposit of 95 has
\* been refused, 5 bottles of space reported.
C2_Witness ==
    \E p \in Procs :
        /\ pc[p] = "done" /\ req[p].op = "machine_insert" /\ rsp[p].status = 400
        /\ rsp[p].message = "Machine is full!"
        /\ rsp[p].available_space = 5 /\ rsp[p].requested = 95
        /\ machines["M001"].current_bottles = 95

\* C3, as claimed: right after a deposit commits, the machine's is_full flag
\* is true exactly when current_bottles >= max_capacity, whatever other
\* deposits and emptyings ran in between.
C3_FullFlagAfterDeposit ==
    [][\A p \in Procs :
        CommitsInsert(p) =>
            LET m == machines'[req[p].machine_id]
            IN  m.is_full <=> (m.current_bottles >= m.max_capacity)
    ]_vars

\* C7, as claimed: two deposits to one machine that both passed the capacity
\* check on the same remaining space, with counts summing to more than that
\* space, are never both committed on top of it.
C7_NoDoubleDeposit ==
    \A p, q \in Procs :
        ~ ( /\ p # q
            /\ pc[p] = "insert_fetch" /\ pc[q] = "insert_fetch"
            /\ req[p].machine_id = req[q].machine_id
            /\ loc[p].available_space = loc[q].available_space
            /\ req[p].bottle_count + req[q].bottle_count > loc[p].available_space
            /\ machines[req[p].machine_id].current_bottles
                 = machines[req[p].machine_id].max_capacity
                   - loc[p].available_space
                   + req[p].bottle_count + req[q].bottle_count )

\* A handler that runs in one step: process p takes request op and answers.
Handles(p, op) == pc[p] = "idle" /\ pc'[p] = "done" /\ req'[p].op = op

\* The users row a bearer token's identity names.
UserOfToken(token) == CHOOSE i \in UsersByUserId(token) : TRUE

\* Brand, threshold and balance are all in order for redeeming pts points.
Redeemable(brand_id, pts, balance) ==
    /\ \E i \in 1..Len(reward_brand) :
          /\ reward_brand[i].id = brand_id
          /\ reward_brand[i].active
          /\ pts >= reward_brand[i].min_points
    /\ pts <= balance

\* C4, as claimed: a redeem request by an existing (logged-in) user takes
\* points_requested off the user's points exactly when the brand exists and is
\* active, points_requested >= brand.min_points and points_requested <= the
\* balance; otherwise it fails and the user's points and the ledger stay
\* as they were.
C4_RedeemContract ==
    [][\A p \in Procs :
        (Handles(p, "redeem_request") /\ req'[p].token \in tokens) =>
            LET r == req'[p]
                i == UserOfToken(r.token)
            IN  IF Redeemable(r.brand_id, r.points, users[i].points)
                THEN users'[i].points = users[i].points - r.points
                ELSE /\ rsp'[p].status # 200
                     /\ users' = users
                     /\ transactions' = transactions
    ]_vars

\* C5, as claimed: every bearer endpoint serves the user whose login issued
\* the token (so none answers 500, users/me shows that user's row and
\* points/summary that user's points), and a logged-in user with 150 points
\* who redeems 150 against brand 3 (Swiggy, active, min_points 100) gets
\* success, 0 points and one new redeem transaction.
C5_TokenResolvesToUser ==
    [][\A p \in Procs :
        ( /\ pc[p] = "idle" /\ pc'[p] = "done"
          /\ req'[p].op \in {"me", "points_summary", "transactions",
                             "redeem_request"}
          /\ req'[p].token \in tokens ) =>
            LET r == req'[p]
                i == UserOfToken(r.token)
            IN  /\ rsp'[p].status \in {200, 400}
                /\ r.op = "me" =>
                     rsp'[p].id = users[i].id /\ rsp'[p].mobile = users[i].mobile
                /\ r.op = "points_summary" =>
                     rsp'[p].total_points = users[i].points
                /\ ( /\ r.op = "redeem_request"
                     /\ r.brand_id = 3 /\ r.points = 150
                     /\ users[i].points = 150 ) =>
                       /\ rsp'[p].status = 200
                       /\ users'[i].points = 0
                       /\ Len(transactions') = Len(transactions) + 1
                       /\ transactions'[Len(transactions')].type = "redeem"
    ]_vars

\* C6: the ledger is append-only.  Every step keeps the rows there are,
\* unchanged and in place; a step adds a row exactly when it is the commit of
\* a deposit or a successful redemption, and then it adds exactly one; a
\* deposit or redemption that is refused leaves the ledger as it was.
C6_LedgerAppendOnly ==
    [][ /\ Len(transactions') >= Len(transactions)
        /\ SubSeq(transactions', 1, Len(transactions)) = transactions
        /\ Len(transactions') <= Len(transactions) + 1
        /\ (Len(transactions') = Len(transactions) + 1)
             <=> \E p \in Procs :
                    \/ CommitsInsert(p)
                    \/ Handles(p, "redeem_request") /\ rsp'[p].status = 200
        /\ \A p \in Procs :
             ( /\ pc[p] = "idle" /\ pc'[p] = "done"
               /\ req'[p].op \in {"machine_insert", "redeem_request"}
               /\ rsp'[p].status # 200 ) => transactions' = transactions
        /\ \A p \in Procs :
             CommitsInsert(p) =>
                /\ transactions'[Len(transactions')].type = "earn"
                /\ transactions'[Len(transactions')].user_id = req[p].user_id
                /\ transactions'[Len(transactions')].bottles = req[p].bottle_count
      ]_vars

\* C6 witness: two deposits are in the ledger and a redemption has failed.
C6_Witness ==
    /\ Len(transactions) = 2
    /\ \E p \in Procs :
          pc[p] = "done" /\ req[p].op = "redeem_request" /\ rsp[p].status # 200

\* C8: the coupon is the first three characters of the brand name in upper
\* case, "-", the user id in decimal, "-", and the transaction id in decimal
\* padded with zeros to four digits; codes for different transaction ids
\* differ.
LastDash(c) ==
    CHOOSE i \in 1..Len(c) : c[i] = "-" /\ \A j \in (i + 1)..Len(c) : c[j] # "-"

Decimal(t, n) ==
    /\ IsDigit(t)
    /\ DigitsValue(t) = n

CouponWellFormed(e) ==
    LET c == e.coupon
        k == Min(3, Len(e.brand_name))
        d == LastDash(c)
        uid == SubSeq(c, k + 2, d - 1)
        trx == SubSeq(c, d + 1, Len(c))
    IN  /\ \A i \in 1..k : c[i] = UpperChar(e.brand_name[i])
        /\ c[k + 1] = "-"
        /\ d > k + 1
        /\ Decimal(uid, e.user_id)
        /\ Len(uid) = 1 \/ uid[1] # "0"
        /\ Decimal(trx, e.trx_id)
        /\ Len(trx) >= 4
        /\ Len(trx) = 4 \/ trx[1] # "0"

C8_CouponFormat ==
    cpn # <<>> =>
        /\ CouponWellFormed(cpn[1])
        /\ CouponWellFormed(cpn[2])
        /\ cpn[1].trx_id # cpn[2].trx_id => cpn[1].coupon # cpn[2].coupon

\* C8 witness: Amazon, user 1, transactions 1 and 10001.
C8_Witness ==
    /\ cpn # <<>>
    /\ cpn[1].brand_name = AMAZON /\ cpn[1].user_id = 1 /\ cpn[1].trx_id = 1
    /\ cpn[1].coupon = <<"A", "M", "A", "-", "1", "-", "0", "0", "0", "1">>
    /\ cpn[2].brand_name = AMAZON /\ cpn[2].user_id = 1 /\ cpn[2].trx_id = 10001
    /\ cpn[2].coupon = <<"A", "M", "A", "-", "1", "-", "1", "0", "0", "0", "1">>

\* C9, as claimed: a register request that lacks any one of name, mobile and
\* password is answered 400 and inserts no user.
C9_RegisterMissingField ==
    [][\A p \in Procs :
        ( /\ Handles(p, "register")
          /\ DOMAIN req'[p].data # {"name", "mobile", "password"} )
        => rsp'[p].status = 400 /\ users' = users
    ]_vars

\* A register body with all three fields given (present and not empty).
AllGiven(data) ==
    Given(data, "name") /\ Given(data, "mobile") /\ Given(data, "password")

\* What a successful register does: one new row, with no points and no
\* bottles, for the name and mobile given, and its user_id in the response.
Registered(p) ==
    /\ rsp'[p].status = 201
    /\ Len(users') = Len(users) + 1
    /\ SubSeq(users', 1, Len(users)) = users
    /\ LET new == users'[Len(users')]
       IN  /\ new.points = 0 /\ new.bottles = 0
           /\ new.name = req'[p].data.name
           /\ new.mobile = req'[p].data.mobile
           /\ rsp'[p].user_id = new.user_id

Conflict(p) ==
    /\ rsp'[p].status = 400
    /\ rsp'[p].message = "mobile or user_id already used"
    /\ users' = users

\* C10, as claimed: with all three fields given, register fails with a
\* conflict exactly when the mobile is already registered, and otherwise
\* inserts one user with 0 points and 0 bottles and returns its identifier.
C10_ConflictIffMobileTaken ==
    [][\A p \in Procs :
        (Handles(p, "register") /\ AllGiven(req'[p].data)) =>
            IF \E i \in 1..Len(users) : users[i].mobile = req'[p].data.mobile
            THEN Conflict(p)
            ELSE Registered(p)
    ]_vars

\* C10, amended: with all three fields given, register fails with a conflict
\* exactly when the mobile is already registered or the user_id derived from
\* the name and the mobile is already in use, and otherwise inserts one user
\* with 0 points and 0 bottles and returns its identifier.
C10_ConflictIffMobileOrUserIdTaken ==
    [][\A p \in Procs :
        (Handles(p, "register") /\ AllGiven(req'[p].data)) =>
            LET d == req'[p].data
                derived == Lower(Prefix(d.name, 4)) \o <<"_">> \o Suffix(d.mobile, 4)
            IN  IF \E i \in 1..Len(users) :
                      users[i].mobile = d.mobile \/ users[i].user_id = derived
                THEN Conflict(p)
                ELSE Registered(p) /\ rsp'[p].user_id = derived
    ]_vars

\* C10 witness: Annabel's register was refused though nobody has her mobile:
\* her derived user_id is Anna's.
C10_Witness ==
    \E p \in Procs :
        /\ pc[p] = "done" /\ req[p].op = "register" /\ rsp[p].status = 400
        /\ rsp[p].message = "mobile or user_id already used"
        /\ req[p].data.name = ANNABEL
        /\ UsersByMobile(req[p].data.mobile) = {}
        /\ UsersByUserId(ANNA_5678) # {}

\* C11, as claimed: a login with a well-formed mobile and a password is
\* answered 401 exactly when no user has that mobile or the password does not
\* match the stored hash, and otherwise 200 with a token for that user (so a
\* login with the mobile and password of a successful register succeeds).
C11_LoginContract ==
    [][\A p \in Procs :
        ( /\ Handles(p, "login")
          /\ DOMAIN req'[p].data = {"mobile", "password"}
          /\ req'[p].data.mobile \in Mobiles )
        => LET d == req'[p].data
               found == UsersByMobile(d.mobile)
           IN  IF \A i \in found : ~BcryptVerify(d.password, users[i].password_hash)
               THEN rsp'[p].status = 401
               ELSE /\ rsp'[p].status = 200
                    /\ \E i \in found : rsp'[p].access_token = users[i].user_id
    ]_vars

\* The console's routes that carry the admin_required decorator.
DecoratedOps == AdminViews \cup {"empty_machine", "add_machine"}

\* Process p starts a request for one of the routes ops.
Starts(p, ops) == pc[p] = "idle" /\ pc'[p] # "idle" /\ req'[p].op \in ops

\* A request for one of the routes ops made without the session flag is not
\* served: it is answered by a redirect to the login page and reads and
\* writes nothing.
Gated(ops) ==
    \A p \in Procs :
        (Starts(p, ops) /\ "admin_logged_in" \notin session) =>
            /\ pc'[p] = "done"
            /\ rsp'[p] = Redirect("admin_login")
            /\ db' = db

\* The session flag is set only by a POST of the fixed pair to the login page.
FlagSetByLoginOnly ==
    ("admin_logged_in" \in session' /\ "admin_logged_in" \notin session) =>
        \E p \in Procs :
            /\ Handles(p, "admin_login")
            /\ req'[p].method = "POST"
            /\ req'[p].form = [username |-> "polygreen", password |-> "poly123"]

\* C12, as claimed: every route of the admin console other than the login
\* page is served only with the session flag set and otherwise redirects to
\* the login page, and only a login with the fixed pair sets the flag.
C12_EveryRouteGated ==
    [][Gated(DecoratedOps \cup {"home", "admin_logout"}) /\ FlagSetByLoginOnly]_vars

\* C12, amended: every route of the admin console other than the landing
\* page "/", the login page and logout is served only with the session flag
\* set and otherwise redirects to the login page; the landing page is served
\* to everyone; logout clears the flag and redirects to the login page; only
\* a login with the fixed pair sets the flag.
C12_DecoratedRoutesGated ==
    [][/\ Gated(DecoratedOps)
       /\ FlagSetByLoginOnly
       /\ \A p \in Procs :
            /\ Handles(p, "home") => rsp'[p].status = 200 /\ session' = session
            /\ Handles(p, "admin_logout") =>
                  /\ rsp'[p] = Redirect("admin_login")
                  /\ "admin_logged_in" \notin session'
    ]_vars

\* C12 witness: a listing view asked for without the flag was answered by the
\* redirect to the login page.
C12_Witness ==
    \E p \in Procs :
        /\ pc[p] = "done" /\ req[p].op \in AdminViews
        /\ "admin_logged_in" \notin session
        /\ rsp[p] = Redirect("admin_login")

\* C13: empty_machine on an existing machine is carried out, and its UPDATE
\* sets current_bottles to 0 and is_full to false, stamps last_emptied, and
\* leaves the machine's total_bottles and max_capacity, every other machine
\* and every user and transaction row unchanged; on an absent machine it is
\* answered 404 and changes nothing.
C13_EmptyMachineFrame ==
    [][\A p \in Procs :
        /\ (Starts(p, {"empty_machine"}) /\ "admin_logged_in" \in session) =>
              LET m == req'[p].machine_id
              IN  IF m \in DOMAIN machines
                  THEN pc'[p] = "empty_write" /\ db' = db
                  ELSE pc'[p] = "done" /\ rsp'[p].status = 404 /\ db' = db
        /\ (pc[p] = "empty_write" /\ pc'[p] # "empty_write") =>
              LET m == req[p].machine_id
              IN  /\ pc'[p] = "done" /\ rsp'[p].status = 302
                  /\ machines'[m].current_bottles = 0
                  /\ machines'[m].is_full = FALSE
                  /\ machines'[m].last_emptied = "NOW"
                  /\ machines'[m].total_bottles = machines[m].total_bottles
                  /\ machines'[m].max_capacity = machines[m].max_capacity
                  /\ \A o \in DOMAIN machines \ {m} : machines'[o] = machines[o]
                  /\ DOMAIN machines' = DOMAIN machines
                  /\ users' = users /\ transactions' = transactions
    ]_vars

\* C13 witness: a full machine that had never been emptied has been emptied.
C13_Witness ==
    \E p \in Procs :
        /\ pc[p] = "done" /\ req[p].op = "empty_machine"
        /\ rsp[p].status = 302 /\ rsp[p].location = "admin_machine_detail"
        /\ rsp[p].bottles_collected = 100
        /\ machines[req[p].machine_id].current_bottles = 0
        /\ machines[req[p].machine_id].total_bottles = 100
        /\ machines[req[p].machine_id].last_emptied = "NOW"
        /\ transactions # <<>>

\* C14, as claimed: a request that acquired a database connection has closed
\* it by the time it ends, on every path: no completed request leaves a
\* connection open.
C14_ConnectionsReleased ==
    \A p \in Procs : pc[p] = "done" => conn[p] # "open"

\* C15: verify_otp succeeds only if send_otp stored a code for that phone,
\* the submitted otp reads the same as the code of the most recent send_otp
\* for that phone, and no more than 300 seconds have passed since that
\* send_otp.
C15_VerifyOnlyFreshCode ==
    [][\A p \in Procs :
        (Handles(p, "verify_otp") /\ rsp'[p].ok) =>
            LET phone == req'[p].phone
            IN  /\ phone \in DOMAIN otp_sent
                /\ PyStr(req'[p].otp) = IntStr(otp_sent[phone].otp)
                /\ now - otp_sent[phone].at <= 300
    ]_vars

\* C15 witness: a code was verified exactly 300 seconds after a second
\* send_otp for the phone had replaced the first code.
C15_Witness ==
    \E p \in Procs :
        /\ pc[p] = "done" /\ req[p].op = "verify_otp" /\ rsp[p].ok
        /\ otp_sent[req[p].phone].at = 100
        /\ otp_sent[req[p].phone].otp = 9999
        /\ now = 400
        /\ req[p].phone \notin DOMAIN otp_store

C17_BottlesWithinCapacity ==
    \A m \in DOMAIN machines :
        /\ 0 <= machines[m].current_bottles
        /\ machines[m].current_bottles <= machines[m].max_capacity

\* C18, as claimed: in every reachable state every user's points balance and
\* bottle count are at least 0.
C18_BalancesNotNegative ==
    \A i \in 1..Len(users) : users[i].points >= 0 /\ users[i].bottles >= 0

\* C20, as claimed: no two user rows ever have the same mobile, whatever the
\* order and the overlap of the register requests.
C20_MobileUnique ==
    \A i, j \in 1..Len(users) : i # j => users[i].mobile # users[j].mobile

\* C21, as claimed: the bottle count empty_machine reports as collected is
\* the current_bottles value its UPDATE overwrote, whatever deposits to the
\* machine run alongside it.
C21_CollectedIsOverwritten ==
    [][\A p \in Procs :
        (pc[p] = "empty_write" /\ pc'[p] = "done") =>
            rsp'[p].bottles_collected = machines[req[p].machine_id].current_bottles
    ]_vars

\* The sums of the points and of the bottles of some ledger rows.
RECURSIVE SumPoints(_)
SumPoints(rows) ==
    IF rows = <<>> THEN 0 ELSE Head(rows).points + SumPoints(Tail(rows))
RECURSIVE SumBottles(_)
SumBottles(rows) ==
    IF rows = <<>> THEN 0 ELSE Head(rows).bottles + SumBottles(Tail(rows))

\* The ledger rows of one type written for user i: machine_insert writes the
\* user's user_id into transactions.user_id, redeem_request the user's id.
RowsOfUser(i, type) ==
    SelectSeq(transactions,
        LAMBDA t : /\ t.type = type
                   /\ t.user_id \in {users[i].user_id, IntStr(users[i].id)})
\* The balance user i was created with: the seeded row's, or register's 0.
CreatedWith(i) == IF i <= Len(SeedUsers) THEN SeedUsers[i].points ELSE 0

\* C22: in every reachable state each user's points are the points the user
\* was created with plus the points of the user's earn rows minus the points
\* of the user's redeem rows, and each machine's total_bottles is the sum of
\* the bottles of the earn rows that name it.
C22_LedgerConservation ==
    /\ \A i \in 1..Len(users) :
          users[i].points = CreatedWith(i) + SumPoints(RowsOfUser(i, "earn"))
                                           - SumPoints(RowsOfUser(i, "redeem"))
    /\ \A m \in DOMAIN machines :
          machines[m].total_bottles =
              SumBottles(SelectSeq(transactions,
                  LAMBDA t : t.type = "earn" /\ t.machine_id = m))

\* C22 witness: two overlapping deposits of 95 bottles have both been
\* committed on the machine of 100.
C22_Witness ==
    /\ Len(transactions) = 2
    /\ machines["M001"].total_bottles = 190
    /\ \E i \in 1..Len(users) : users[i].points = 2000

\* C23: a deposit is all-or-nothing.  Every step that changes a user, a
\* machine or the ledger is the commit of one deposit and shows its three
\* effects together: the user's points and bottles, the machine's counters
\* and the earn row; a deposit that fails between its statements shows none.
C23_DepositAllOrNothing ==
    [][db' # db =>
        \E p \in Procs :
            /\ req[p].op = "machine_insert" /\ pc'[p] = "insert_fetch"
            /\ users' = UpdateUserEarn(users, req[p].user_id,
                            req[p].bottle_count * req[p].points_per_bottle,
                            req[p].bottle_count)
            /\ machines'[req[p].machine_id].total_bottles =
                   machines[req[p].machine_id].total_bottles + req[p].bottle_count
            /\ machines'[req[p].machine_id].current_bottles =
                   machines[req[p].machine_id].current_bottles + req[p].bottle_count
            /\ Len(transactions') = Len(transactions) + 1
            /\ transactions'[Len(transactions')].user_id = req[p].user_id
            /\ transactions'[Len(transactions')].bottles = req[p].bottle_count
    ]_vars

\* C23 witness: one deposit failed after its statements had run and shows
\* nothing, while the deposit that overlapped it is committed whole.
C23_Witness ==
    \E p, q \in Procs :
        /\ pc[p] = "done" /\ req[p].op = "machine_insert" /\ rsp[p] = ServerError
        /\ pc[q] = "insert_fetch" /\ req[q].bottle_count = 95
        /\ Len(transactions) = 1
        /\ machines["M001"].total_bottles = 95
        /\ \E i \in 1..Len(users) : users[i].bottles = 105

\* C24: an OTP is single-use.  A verify_otp that succeeds finds a stored code
\* for the phone and removes it, leaving the other phones' codes alone; a
\* verify_otp that fails leaves the store unchanged; and only a send_otp for
\* a phone puts a code for it into the store - so once a code is verified,
\* every verify for the phone fails until the next send_otp for it.
C24_OtpSingleUse ==
    [][/\ \A p \in Procs :
            Handles(p, "verify_otp") =>
                IF rsp'[p].ok
                THEN /\ req'[p].phone \in DOMAIN otp_store
                     /\ otp_store' = [k \in DOMAIN otp_store \ {req'[p].phone} |->
                                          otp_store[k]]
                     /\ req'[p].phone \notin DOMAIN otp_store'
                ELSE otp_store' = otp_store
       /\ \A phone \in DOMAIN otp_store' \ DOMAIN otp_store :
            \E p \in Procs : Handles(p, "send_otp") /\ req'[p].phone = phone
       /\ \A p \in Procs :
            (Handles(p, "verify_otp") /\ req'[p].phone \notin DOMAIN otp_store)
                => ~rsp'[p].ok
    ]_vars

\* C24 witness: a verify with the code of the latest send_otp, still within
\* its 300 seconds, was refused because an earlier verify had used the code.
C24_Witness ==
    \E p \in Procs :
        /\ pc[p] = "done" /\ req[p].op = "verify_otp" /\ ~rsp[p].ok
        /\ rsp[p].error = "OTP expired or not found"
        /\ req[p].phone \in DOMAIN otp_sent
        /\ PyStr(req[p].otp) = IntStr(otp_sent[req[p].phone].otp)
        /\ now - otp_sent[req[p].phone].at <= 300

====
